---- MODULE Spec2Model ----
(***************************************************************************)
(* NexaDB native vector indexes: the brute-force VectorBatchInserter       *)
(* (vector_ops.cpp) and the HNSWIndex (hnsw_index.cpp), as exposed by      *)
(* bindings.cpp.  One run drives one index object through its public       *)
(* calls.  Floats are modelled by small integers, on which the squared-L2  *)
(* kernel is exact; IDs and layers are 0-based as in the source, stored in *)
(* 1-based TLA+ sequences.                                                 *)
(***************************************************************************)
EXTENDS Integers, Sequences, FiniteSets, TLC

\* ------------------------------------------------------------------ bounds
Dim == 2            \* dimensionality the index is constructed with
MaxN == 3           \* the brute-force index holds at most MaxN vectors
MaxDraws == 4       \* the HNSW RNG is drawn at most MaxDraws times
MaxBatch == 2       \* add_batch takes at most MaxBatch vectors
MaxEf == 1          \* set_ef is called with ef in 0..MaxEf

DefaultEfSearch == 100

\* ------------------------------------------------------------------ inputs
Coords == {0, 1}                \* first coordinate of vectors and queries
Levels == {0, 1}                \* levels the engine's outputs map to
Ms == {1, 2}                    \* constructor argument M
Efcs == {1, 2}                  \* constructor argument ef_construction
Ks == 0..(MaxDraws + 1)         \* search argument k

\* vectors and queries of the right length lie on the first axis; one
\* vector is too long
Vecs == {[i \in 1..Dim |-> IF i = 1 THEN c ELSE 0] : c \in Coords}
BadVecs == {[i \in 1..(Dim + 1) |-> 0]}
AnyVecs == Vecs \cup BadVecs
Batches == UNION {[1..n -> AnyVecs] : n \in 0..MaxBatch}

\* ----------------------------------------------------------------- helpers
Min(a, b) == IF a < b THEN a ELSE b
Max(a, b) == IF a > b THEN a ELSE b

\* C++ integer division truncates toward zero
CDiv(a, b) == IF a >= 0 THEN a \div b ELSE -((-a) \div b)

\* 0-based element access on a 1-based sequence
At(s, i) == s[i + 1]
Put(s, i, x) == [s EXCEPT ![i + 1] = x]

\* scalar path of l2_distance_simd: sum of squared differences
RECURSIVE l2_from(_, _, _)
l2_from(a, b, i) ==
    IF i > Len(a) THEN 0
    ELSE (a[i] - b[i]) * (a[i] - b[i]) + l2_from(a, b, i + 1)

l2_distance_simd(a, b) == l2_from(a, b, 1)

\* row i of a flat row-major buffer: &data_[i * dimensions_]
Row(data, dims, i) == SubSeq(data, i * dims + 1, (i + 1) * dims)

\* comparator on {id, distance}: greater = TRUE is operator>, else operator<
Comp(greater, a, b) ==
    IF greater THEN a.distance > b.distance ELSE a.distance < b.distance

\* ------------------------------------------ libstdc++ heap algorithms
\* std::__push_heap
RECURSIVE push_heap_loop(_, _, _, _, _)
push_heap_loop(s, holeIndex, topIndex, value, greater) ==
    LET parent == CDiv(holeIndex - 1, 2)
    IN IF holeIndex > topIndex /\ Comp(greater, At(s, parent), value)
       THEN push_heap_loop(Put(s, holeIndex, At(s, parent)), parent,
                           topIndex, value, greater)
       ELSE Put(s, holeIndex, value)

\* std::__adjust_heap, the sift-down loop: returns <<sequence, hole, child>>
RECURSIVE adjust_heap_loop(_, _, _, _, _)
adjust_heap_loop(s, holeIndex, secondChild, len, greater) ==
    IF secondChild < CDiv(len - 1, 2)
    THEN LET sc0 == 2 * (secondChild + 1)
             sc == IF Comp(greater, At(s, sc0), At(s, sc0 - 1))
                   THEN sc0 - 1 ELSE sc0
         IN adjust_heap_loop(Put(s, holeIndex, At(s, sc)), sc, sc, len, greater)
    ELSE <<s, holeIndex, secondChild>>

\* std::__adjust_heap after the loop left r = <<sequence, hole, child>>: the
\* lone left child of an even-length heap, then std::__push_heap of value
adjust_heap_last(r, holeIndex, len, value, greater) ==
    LET s1 == r[1]
        hole1 == r[2]
        sc1 == r[3]
        lone == (len % 2 = 0) /\ sc1 = CDiv(len - 2, 2)
        sc2 == 2 * (sc1 + 1)
        s2 == IF lone THEN Put(s1, hole1, At(s1, sc2 - 1)) ELSE s1
        hole2 == IF lone THEN sc2 - 1 ELSE hole1
    IN push_heap_loop(s2, hole2, holeIndex, value, greater)

\* std::__adjust_heap on the first len elements of s
adjust_heap(s, holeIndex, len, value, greater) ==
    adjust_heap_last(adjust_heap_loop(s, holeIndex, holeIndex, len, greater),
                     holeIndex, len, value, greater)

\* std::__pop_heap(first, first + last, first + result): the top goes to
\* position result, the old value there is sifted into the heap [0, last)
pop_heap_to(s, last, result, greater) ==
    LET value == At(s, result)
        s1 == Put(s, result, At(s, 0))
    IN adjust_heap(s1, 0, last, value, greater)

\* std::priority_queue::push: c.push_back(x); std::push_heap(c)
pq_push(s, x, greater) ==
    push_heap_loop(Append(s, x), Len(s), 0, x, greater)

\* std::priority_queue::pop: std::pop_heap(c); c.pop_back()
pq_pop(s, greater) ==
    LET n == Len(s)
        s1 == IF n > 1 THEN pop_heap_to(s, n - 1, n - 1, greater) ELSE s
    IN SubSeq(s1, 1, n - 1)

\* std::__make_heap on the first len elements
RECURSIVE make_heap_loop(_, _, _, _)
make_heap_loop(s, parent, len, greater) ==
    LET s1 == adjust_heap(s, parent, len, At(s, parent), greater)
    IN IF parent = 0 THEN s1 ELSE make_heap_loop(s1, parent - 1, len, greater)

make_heap(s, len, greater) ==
    IF len < 2 THEN s ELSE make_heap_loop(s, CDiv(len - 2, 2), len, greater)

\* std::__heap_select: keep the middle smallest in the heap [0, middle)
RECURSIVE heap_select_loop(_, _, _, _)
heap_select_loop(s, middle, i, greater) ==
    IF i >= Len(s) THEN s
    ELSE IF Comp(greater, At(s, i), At(s, 0))
         THEN heap_select_loop(pop_heap_to(s, middle, i, greater),
                               middle, i + 1, greater)
         ELSE heap_select_loop(s, middle, i + 1, greater)

\* std::__sort_heap on [0, last)
RECURSIVE sort_heap(_, _, _)
sort_heap(s, last, greater) ==
    IF last > 1
    THEN sort_heap(pop_heap_to(s, last - 1, last - 1, greater), last - 1, greater)
    ELSE s

\* faulty variant of partial_sort: the scan of [middle, last) is left out
partial_sort_no_select(s, middle, greater) ==
    sort_heap(make_heap(s, middle, greater), middle, greater)

\* std::partial_sort(first, first + middle, last, comp)
partial_sort(s, middle, greater) ==
    sort_heap(heap_select_loop(make_heap(s, middle, greater), middle, middle, greater),
              middle, greater)

\* std::sort on a range of at most 16 elements is libstdc++'s insertion sort
RECURSIVE linear_insert(_, _, _, _)
linear_insert(s, pos, value, greater) ==
    IF pos > 0 /\ Comp(greater, value, At(s, pos - 1))
    THEN linear_insert(Put(s, pos, At(s, pos - 1)), pos - 1, value, greater)
    ELSE Put(s, pos, value)

RECURSIVE insertion_sort_from(_, _, _)
insertion_sort_from(s, i, greater) ==
    IF i >= Len(s) THEN s
    ELSE insertion_sort_from(linear_insert(s, i, At(s, i), greater), i + 1, greater)

std_sort(s, greater) == insertion_sort_from(s, 1, greater)

\* ------------------------------------------------ VectorBatchInserter
\* constructor: dimensions_(dimensions), num_vectors_(0), empty data_
VectorBatchInserter(dimensions) ==
    [dimensions_ |-> dimensions, num_vectors_ |-> 0, data_ |-> <<>>]

\* faulty variant of add: the row is stored but num_vectors_ is not advanced
bf_add_no_count(b, vector) == [b EXCEPT !.data_ = @ \o vector]

\* add: the body after the dimension check
bf_add(b, vector) ==
    [b EXCEPT !.data_ = @ \o vector, !.num_vectors_ = @ + 1]

\* faulty variant of the validation loop: only the first vector is checked
bf_batch_invalid_first(b, vectors) ==
    vectors # <<>> /\ Len(vectors[1]) # b.dimensions_

\* add_batch: the validation loop (true when some vector is rejected)
bf_batch_invalid(b, vectors) ==
    \E i \in 1..Len(vectors) : Len(vectors[i]) # b.dimensions_

\* add_batch: the insert loop
RECURSIVE bf_batch_insert(_, _, _)
bf_batch_insert(data, vectors, i) ==
    IF i > Len(vectors) THEN data
    ELSE bf_batch_insert(data \o vectors[i], vectors, i + 1)

\* add_batch: the body after validation
bf_add_batch(b, vectors) ==
    [b EXCEPT !.data_ = bf_batch_insert(@, vectors, 1),
              !.num_vectors_ = @ + Len(vectors)]

\* search: the distance scan, one (i, dist) pair per stored row
RECURSIVE bf_scan(_, _, _, _)
bf_scan(b, query, i, distances) ==
    IF i >= b.num_vectors_ THEN distances
    ELSE bf_scan(b, query, i + 1,
            Append(distances,
                [id |-> i,
                 distance |-> l2_distance_simd(query, Row(b.data_, b.dimensions_, i))]))

bf_distances(b, query) == bf_scan(b, query, 0, <<>>)

\* search: the body after the dimension check
bf_search(b, query, k) ==
    IF b.num_vectors_ = 0 THEN <<>>
    ELSE LET kk == Min(k, b.num_vectors_)
         IN SubSeq(partial_sort(bf_distances(b, query), kk, FALSE), 1, kk)

\* clear
bf_clear(b) == [b EXCEPT !.data_ = <<>>, !.num_vectors_ = 0]

\* ---------------------------------------------------------- HNSWIndex
\* HNSWNode(node_id, max_layer): max_layer + 1 empty neighbour lists
RECURSIVE EmptyLists(_)
EmptyLists(n) == IF n = 0 THEN <<>> ELSE Append(EmptyLists(n - 1), <<>>)

\* faulty variant of the node constructor: ids counted from 1
HNSWNode_one_based(node_id, max_layer) ==
    [id |-> node_id + 1, neighbors |-> EmptyLists(max_layer + 1)]

HNSWNode(node_id, max_layer) ==
    [id |-> node_id, neighbors |-> EmptyLists(max_layer + 1)]

\* constructor; rng_ counts the draws made from the engine seeded with 42.
\* max_elements_ only sizes two reserve() calls and is left out.
HNSWIndex(dimensions, M, ef_construction) ==
    [dimensions_ |-> dimensions,
     num_vectors_ |-> 0,
     M_ |-> M,
     M_max_ |-> M * 2,
     ef_construction_ |-> ef_construction,
     ef_search_ |-> DefaultEfSearch,
     data_ |-> <<>>,
     nodes_ |-> <<>>,
     entry_point_ |-> 0,
     max_layer_ |-> 0,
     rng_ |-> 0]

\* get_random_level: the level the engine's next output maps to.  mt is the
\* sequence of levels that the fixed-seed engine yields, draw by draw.
get_random_level(h, mt) == mt[h.rng_ + 1]

distance(h, id1, id2) ==
    l2_distance_simd(Row(h.data_, h.dimensions_, id1), Row(h.data_, h.dimensions_, id2))

distance_to_query(h, query, id) ==
    l2_distance_simd(query, Row(h.data_, h.dimensions_, id))

\* faulty variant of the cut: W is never popped
sl_trim_none(W, ef) == W

\* search_layer: W is cut back to ef entries after a push
sl_trim(W, ef) == IF Len(W) > ef THEN pq_pop(W, FALSE) ELSE W

\* faulty variant of the neighbour loop: visited is never added to
RECURSIVE sl_neighbors_unmarked(_, _, _, _, _, _)
sl_neighbors_unmarked(h, query, ef, nbrs, i, st) ==
    IF i > Len(nbrs) THEN st
    ELSE LET nid == nbrs[i]
         IN IF nid \in st.visited
            THEN sl_neighbors_unmarked(h, query, ef, nbrs, i + 1, st)
            ELSE LET d == distance_to_query(h, query, nid)
                     x == [id |-> nid, distance |-> d]
                 IN IF d < At(st.W, 0).distance \/ Len(st.W) < ef
                    THEN LET C1 == pq_push(st.C, x, TRUE)
                             W1 == sl_trim(pq_push(st.W, x, FALSE), ef)
                         IN sl_neighbors_unmarked(h, query, ef, nbrs, i + 1,
                                [visited |-> st.visited, C |-> C1, W |-> W1])
                    ELSE sl_neighbors_unmarked(h, query, ef, nbrs, i + 1, st)

\* search_layer: the loop over the neighbours of the popped candidate
RECURSIVE sl_neighbors(_, _, _, _, _, _)
sl_neighbors(h, query, ef, nbrs, i, st) ==
    IF i > Len(nbrs) THEN st
    ELSE LET nid == nbrs[i]
         IN IF nid \in st.visited
            THEN sl_neighbors(h, query, ef, nbrs, i + 1, st)
            ELSE LET d == distance_to_query(h, query, nid)
                     x == [id |-> nid, distance |-> d]
                     st1 == [st EXCEPT !.visited = @ \cup {nid}]
                 IN IF d < At(st.W, 0).distance \/ Len(st.W) < ef
                    THEN LET C1 == pq_push(st.C, x, TRUE)
                             W1 == sl_trim(pq_push(st.W, x, FALSE), ef)
                         IN sl_neighbors(h, query, ef, nbrs, i + 1,
                                [visited |-> st1.visited, C |-> C1, W |-> W1])
                    ELSE sl_neighbors(h, query, ef, nbrs, i + 1, st1)

\* search_layer: the main loop (C is the min-heap candidates, W the max-heap)
RECURSIVE sl_loop(_, _, _, _, _)
sl_loop(h, query, ef, layer, st) ==
    IF st.C = <<>> THEN st
    ELSE LET c == At(st.C, 0)
             st1 == [st EXCEPT !.C = pq_pop(@, TRUE)]
         IN IF c.distance > At(st.W, 0).distance THEN st1
            ELSE sl_loop(h, query, ef, layer,
                    sl_neighbors(h, query, ef,
                        At(At(h.nodes_, c.id).neighbors, layer), 1, st1))

\* search_layer: pop W until empty (farthest first)
RECURSIVE sl_drain(_)
sl_drain(W) ==
    IF W = <<>> THEN <<>> ELSE <<At(W, 0)>> \o sl_drain(pq_pop(W, FALSE))

\* std::reverse
RECURSIVE Reverse(_)
Reverse(s) == IF s = <<>> THEN <<>> ELSE Append(Reverse(Tail(s)), Head(s))

\* search_layer: the ids of the candidates the main loop pops, in order
RECURSIVE sl_popped(_, _, _, _, _)
sl_popped(h, query, ef, layer, st) ==
    IF st.C = <<>> THEN <<>>
    ELSE LET c == At(st.C, 0)
             st1 == [st EXCEPT !.C = pq_pop(@, TRUE)]
         IN IF c.distance > At(st.W, 0).distance THEN <<c.id>>
            ELSE <<c.id>> \o sl_popped(h, query, ef, layer,
                                sl_neighbors(h, query, ef,
                                    At(At(h.nodes_, c.id).neighbors, layer), 1, st1))

\* faulty variant of the set-up: the entry is recorded at distance 0
sl_init_zero(h, query, entry_id) ==
    LET x == [id |-> entry_id, distance |-> 0]
    IN [visited |-> {entry_id},
        C |-> pq_push(<<>>, x, TRUE),
        W |-> pq_push(<<>>, x, FALSE)]

\* search_layer: the three containers before the loop, holding the entry
sl_init(h, query, entry_id) ==
    LET d == distance_to_query(h, query, entry_id)
        x == [id |-> entry_id, distance |-> d]
    IN [visited |-> {entry_id},
        C |-> pq_push(<<>>, x, TRUE),
        W |-> pq_push(<<>>, x, FALSE)]

\* search_layer: the state of the three containers when the loop ends
sl_run(h, query, entry_id, ef, layer) ==
    sl_loop(h, query, ef, layer, sl_init(h, query, entry_id))

\* faulty variant of search_layer: the drained heap is not reversed
search_layer_no_reverse(h, query, entry_id, ef, layer) ==
    sl_drain(sl_run(h, query, entry_id, ef, layer).W)

search_layer(h, query, entry_id, ef, layer) ==
    Reverse(sl_drain(sl_run(h, query, entry_id, ef, layer).W))

\* prune_connections: the loop that pairs each neighbour with its distance
RECURSIVE prune_candidates(_, _, _, _)
prune_candidates(h, node_id, neighbors, i) ==
    IF i > Len(neighbors) THEN <<>>
    ELSE <<[id |-> neighbors[i], distance |-> distance(h, node_id, neighbors[i])]>>
         \o prune_candidates(h, node_id, neighbors, i + 1)

\* faulty variant of the keep loop: i <= M instead of i < M
RECURSIVE prune_keep_one_more(_, _, _)
prune_keep_one_more(candidates, M, i) ==
    IF i > M + 1 \/ i > Len(candidates) THEN <<>>
    ELSE <<candidates[i].id>> \o prune_keep_one_more(candidates, M, i + 1)

\* prune_connections: the loop that keeps the ids of the M nearest
RECURSIVE prune_keep(_, _, _)
prune_keep(candidates, M, i) ==
    IF i > M \/ i > Len(candidates) THEN <<>>
    ELSE <<candidates[i].id>> \o prune_keep(candidates, M, i + 1)

\* prune_connections
prune_connections(h, node_id, layer, M) ==
    LET neighbors == At(At(h.nodes_, node_id).neighbors, layer)
    IN IF Len(neighbors) <= M THEN h
       ELSE LET candidates == prune_candidates(h, node_id, neighbors, 1)
                sorted == std_sort(candidates, FALSE)
            IN [h EXCEPT !.nodes_[node_id + 1].neighbors[layer + 1] =
                            prune_keep(sorted, M, 1)]

\* if (!nearest.empty()) curr_nearest = nearest[0].id
nearest_id(nearest, curr_nearest) ==
    IF nearest # <<>> THEN nearest[1].id ELSE curr_nearest

\* add: the descent loop over the layers above new_level (ef = 1)
RECURSIVE add_descend(_, _, _, _, _)
add_descend(h, vector, curr_nearest, lc, new_level) ==
    IF lc > new_level
    THEN add_descend(h, vector,
             nearest_id(search_layer(h, vector, curr_nearest, 1, lc), curr_nearest),
             lc - 1, new_level)
    ELSE curr_nearest

\* faulty variant of the link loop: the new node lists itself
RECURSIVE add_links_self(_, _, _, _, _, _)
add_links_self(h, new_id, neighbors, i, lc, M) ==
    IF i > Len(neighbors) THEN h
    ELSE LET nb == neighbors[i].id
             h1 == [h EXCEPT !.nodes_[new_id + 1].neighbors[lc + 1] = Append(@, new_id)]
             h2 == [h1 EXCEPT !.nodes_[nb + 1].neighbors[lc + 1] = Append(@, new_id)]
             h3 == IF Len(At(At(h2.nodes_, nb).neighbors, lc)) > M
                   THEN prune_connections(h2, nb, lc, M) ELSE h2
         IN add_links_self(h3, new_id, neighbors, i + 1, lc, M)

\* add: the loop that adds the bidirectional links to the chosen neighbours
RECURSIVE add_links(_, _, _, _, _, _)
add_links(h, new_id, neighbors, i, lc, M) ==
    IF i > Len(neighbors) THEN h
    ELSE LET nb == neighbors[i].id
             h1 == [h EXCEPT !.nodes_[new_id + 1].neighbors[lc + 1] = Append(@, nb)]
             h2 == [h1 EXCEPT !.nodes_[nb + 1].neighbors[lc + 1] = Append(@, new_id)]
             h3 == IF Len(At(At(h2.nodes_, nb).neighbors, lc)) > M
                   THEN prune_connections(h2, nb, lc, M) ELSE h2
         IN add_links(h3, new_id, neighbors, i + 1, lc, M)

\* add: the insert loop from min(new_level, max_layer_) down to layer 0;
\* add_connect is the loop body once layer lc has been searched
RECURSIVE add_insert(_, _, _, _, _)
RECURSIVE add_connect(_, _, _, _, _, _)
\* faulty variant of the loop body: M_ is the limit at layer 0 as well
add_connect_M(h, vector, new_id, curr_nearest, lc, candidates) ==
    LET M == h.M_
        neighbors == SubSeq(candidates, 1, Min(M, Len(candidates)))
    IN add_insert(add_links(h, new_id, neighbors, 1, lc, M), vector, new_id,
                  nearest_id(neighbors, curr_nearest), lc - 1)

add_connect(h, vector, new_id, curr_nearest, lc, candidates) ==
    LET M == IF lc = 0 THEN h.M_max_ ELSE h.M_
        neighbors == SubSeq(candidates, 1, Min(M, Len(candidates)))
    IN add_insert(add_links(h, new_id, neighbors, 1, lc, M), vector, new_id,
                  nearest_id(neighbors, curr_nearest), lc - 1)

add_insert(h, vector, new_id, curr_nearest, lc) ==
    IF lc >= 0
    THEN add_connect(h, vector, new_id, curr_nearest, lc,
             search_layer(h, vector, curr_nearest, h.ef_construction_, lc))
    ELSE h

\* faulty variant of the promotion: max_layer_ rises, the entry point stays
add_promote_keep_entry(h, new_id, new_level) ==
    IF new_level > h.max_layer_
    THEN [h EXCEPT !.max_layer_ = new_level, !.num_vectors_ = @ + 1]
    ELSE [h EXCEPT !.num_vectors_ = @ + 1]

\* faulty variant of the promotion: >= instead of >
add_promote_ge(h, new_id, new_level) ==
    IF new_level >= h.max_layer_
    THEN [h EXCEPT !.max_layer_ = new_level, !.entry_point_ = new_id,
                   !.num_vectors_ = @ + 1]
    ELSE [h EXCEPT !.num_vectors_ = @ + 1]

\* add: a new node above max_layer_ becomes the entry point; num_vectors_++
add_promote(h, new_id, new_level) ==
    IF new_level > h.max_layer_
    THEN [h EXCEPT !.max_layer_ = new_level, !.entry_point_ = new_id,
                   !.num_vectors_ = @ + 1]
    ELSE [h EXCEPT !.num_vectors_ = @ + 1]

\* add: the level is drawn, the vector stored and the node created with
\* max(new_level, max_layer_) + 1 lists
add_alloc(h, vector, mt) ==
    [h EXCEPT !.rng_ = @ + 1,
              !.data_ = @ \o vector,
              !.nodes_ = Append(@, HNSWNode(h.num_vectors_,
                                            Max(get_random_level(h, mt), h.max_layer_)))]

\* add: the (node, layer) pairs whose neighbour list the insert loop reads
\* as a search entry or writes as an end of a new link
RECURSIVE add_accesses(_, _, _, _, _)
add_accesses(h, vector, new_id, curr_nearest, lc) ==
    IF lc >= 0
    THEN LET candidates == search_layer(h, vector, curr_nearest, h.ef_construction_, lc)
             M == IF lc = 0 THEN h.M_max_ ELSE h.M_
             neighbors == SubSeq(candidates, 1, Min(M, Len(candidates)))
         IN {<<curr_nearest, lc>>, <<new_id, lc>>}
            \cup {<<neighbors[i].id, lc>> : i \in 1..Len(neighbors)}
            \cup add_accesses(add_links(h, new_id, neighbors, 1, lc, M), vector,
                              new_id, nearest_id(neighbors, curr_nearest), lc - 1)
    ELSE {}

\* add / search: the (node, layer) pairs at which the descent from layer lc
\* down to layer stop + 1 enters search_layer
RECURSIVE descend_accesses(_, _, _, _, _)
descend_accesses(h, query, curr_nearest, lc, stop) ==
    IF lc > stop
    THEN {<<curr_nearest, lc>>}
         \cup descend_accesses(h, query,
                  nearest_id(search_layer(h, query, curr_nearest, 1, lc), curr_nearest),
                  lc - 1, stop)
    ELSE {}

\* faulty variant of add: the insert loop starts at max_layer_
hnsw_add_all_layers(h, vector, mt) ==
    LET new_id == h.num_vectors_
        new_level == get_random_level(h, mt)
        h1 == add_alloc(h, vector, mt)
    IN IF h.num_vectors_ = 0
       THEN [h1 EXCEPT !.entry_point_ = new_id,
                       !.max_layer_ = new_level,
                       !.num_vectors_ = @ + 1]
       ELSE add_promote(
                add_insert(h1, vector, new_id, h1.entry_point_, h1.max_layer_),
                new_id, new_level)

\* add: the body after the dimension check
hnsw_add(h, vector, mt) ==
    LET new_id == h.num_vectors_
        new_level == get_random_level(h, mt)
        h1 == add_alloc(h, vector, mt)
    IN IF h.num_vectors_ = 0
       THEN [h1 EXCEPT !.entry_point_ = new_id,
                       !.max_layer_ = new_level,
                       !.num_vectors_ = @ + 1]
       ELSE LET curr == add_descend(h1, vector, h1.entry_point_, h1.max_layer_, new_level)
            IN add_promote(
                   add_insert(h1, vector, new_id, curr, Min(new_level, h1.max_layer_)),
                   new_id, new_level)

\* add_batch: add() on each vector in turn; the first rejected vector throws
\* out of the loop.  Returns the index reached and whether the call threw.
RECURSIVE hnsw_add_batch(_, _, _, _)
hnsw_add_batch(h, vectors, i, mt) ==
    IF i > Len(vectors) THEN [h |-> h, err |-> FALSE]
    ELSE IF Len(vectors[i]) # h.dimensions_ THEN [h |-> h, err |-> TRUE]
    ELSE hnsw_add_batch(hnsw_add(h, vectors[i], mt), vectors, i + 1, mt)

\* search: the descent over the layers above 0 (ef = 1)
RECURSIVE search_descend(_, _, _, _)
search_descend(h, query, curr_nearest, lc) ==
    IF lc > 0
    THEN search_descend(h, query,
             nearest_id(search_layer(h, query, curr_nearest, 1, lc), curr_nearest),
             lc - 1)
    ELSE curr_nearest

\* faulty variant of the result loop: one pair is returned even for k = 0
search_results_one(candidates, k) ==
    SubSeq(candidates, 1, Min(Max(k, 1), Len(candidates)))

\* search: the first k candidates are the result
search_results(candidates, k) == SubSeq(candidates, 1, Min(k, Len(candidates)))

\* faulty variant of search: layer 0 is searched with ef_search_ alone
hnsw_search_ef_only(h, query, k) ==
    IF h.num_vectors_ = 0 THEN <<>>
    ELSE LET kk == Min(k, h.num_vectors_)
             curr == search_descend(h, query, h.entry_point_, h.max_layer_)
         IN search_results(search_layer(h, query, curr, h.ef_search_, 0), kk)

\* search: the body after the dimension check
hnsw_search(h, query, k) ==
    IF h.num_vectors_ = 0 THEN <<>>
    ELSE LET kk == Min(k, h.num_vectors_)
             curr == search_descend(h, query, h.entry_point_, h.max_layer_)
         IN search_results(search_layer(h, query, curr, Max(h.ef_search_, kk), 0), kk)

\* faulty variant of clear: ef_search_ goes back to its default
hnsw_clear_reset_ef(h) ==
    [h EXCEPT !.data_ = <<>>, !.nodes_ = <<>>, !.num_vectors_ = 0,
              !.entry_point_ = 0, !.max_layer_ = 0, !.ef_search_ = DefaultEfSearch]

\* clear
hnsw_clear(h) ==
    [h EXCEPT !.data_ = <<>>, !.nodes_ = <<>>, !.num_vectors_ = 0,
              !.entry_point_ = 0, !.max_layer_ = 0]

\* faulty variant of set_ef: ef_construction_ is set as well
hnsw_set_ef_both(h, ef) == [h EXCEPT !.ef_search_ = ef, !.ef_construction_ = ef]

\* set_ef
hnsw_set_ef(h, ef) == [h EXCEPT !.ef_search_ = ef]

\* ------------------------------------------------------- state machine
VARIABLES
    kind,      \* which class the caller constructed: "bf" or "hnsw"
    bf,        \* the VectorBatchInserter object
    hnsw,      \* the HNSWIndex object
    mt,        \* levels produced so far by the engine seeded with 42
    ret,       \* outcome of the call in progress, as handed to the caller
    cleared    \* clear() has been called on a non-empty index

vars == <<kind, bf, hnsw, mt, ret, cleared>>

NoRet == [op |-> "none", arg |-> <<>>, k |-> 0, err |-> FALSE, out |-> <<>>]

Outcome(op, arg, k, err, out) ==
    [op |-> op, arg |-> arg, k |-> k, err |-> err, out |-> out]

Init ==
    /\ kind \in {"bf", "hnsw"}
    /\ bf = VectorBatchInserter(Dim)
    /\ \E M \in Ms, efc \in Efcs :
          /\ kind = "bf" => (M = 1 /\ efc = 1)
          /\ hnsw = HNSWIndex(Dim, M, efc)
    /\ mt = <<>>
    /\ ret = NoRet
    /\ cleared = FALSE

\* the levels the engine yields for the next `need` draws: those already
\* known are re-read, the others are new outputs
Streams(h, need) ==
    LET new == Max(0, h.rng_ + need - Len(mt))
    IN {mt \o ext : ext \in [1..new -> Levels]}

\* number of vectors add_batch accepts before it throws or finishes
RECURSIVE AcceptedPrefix(_, _, _)
AcceptedPrefix(vectors, dims, i) ==
    IF i > Len(vectors) \/ Len(vectors[i]) # dims THEN i - 1
    ELSE AcceptedPrefix(vectors, dims, i + 1)

\* VectorBatchInserter::add
BFAdd(v) ==
    /\ kind = "bf" /\ ret = NoRet
    /\ IF Len(v) # bf.dimensions_
       THEN /\ ret' = Outcome("add", v, 0, TRUE, <<>>)
            /\ UNCHANGED bf
       ELSE /\ bf.num_vectors_ < MaxN
            /\ bf' = bf_add(bf, v)
            /\ ret' = Outcome("add", v, 0, FALSE, <<>>)
    /\ UNCHANGED <<kind, hnsw, mt, cleared>>

\* VectorBatchInserter::add_batch
BFAddBatch(vs) ==
    /\ kind = "bf" /\ ret = NoRet
    /\ IF bf_batch_invalid(bf, vs)
       THEN /\ ret' = Outcome("add_batch", vs, 0, TRUE, <<>>)
            /\ UNCHANGED bf
       ELSE /\ bf.num_vectors_ + Len(vs) <= MaxN
            /\ bf' = bf_add_batch(bf, vs)
            /\ ret' = Outcome("add_batch", vs, 0, FALSE, <<>>)
    /\ UNCHANGED <<kind, hnsw, mt, cleared>>

\* VectorBatchInserter::search
BFSearch(q, k) ==
    /\ kind = "bf" /\ ret = NoRet
    /\ IF Len(q) # bf.dimensions_
       THEN ret' = Outcome("search", q, k, TRUE, <<>>)
       ELSE ret' = Outcome("search", q, k, FALSE, bf_search(bf, q, k))
    /\ UNCHANGED <<kind, bf, hnsw, mt, cleared>>

\* VectorBatchInserter::clear
BFClear ==
    /\ kind = "bf" /\ ret = NoRet
    /\ bf' = bf_clear(bf)
    /\ cleared' = (cleared \/ bf.num_vectors_ > 0)
    /\ ret' = Outcome("clear", <<>>, 0, FALSE, <<>>)
    /\ UNCHANGED <<kind, hnsw, mt>>

\* faulty variant of add: the level is drawn before the dimension check
HAddDrawFirst(v) ==
    /\ kind = "hnsw" /\ ret = NoRet
    /\ hnsw.rng_ < MaxDraws
    /\ mt' \in Streams(hnsw, 1)
    /\ IF Len(v) # hnsw.dimensions_
       THEN /\ ret' = Outcome("add", v, 0, TRUE, <<>>)
            /\ hnsw' = [hnsw EXCEPT !.rng_ = @ + 1]
       ELSE /\ hnsw' = hnsw_add(hnsw, v, mt')
            /\ ret' = Outcome("add", v, 0, FALSE, <<>>)
    /\ UNCHANGED <<kind, bf, cleared>>

\* HNSWIndex::add
HAdd(v) ==
    /\ kind = "hnsw" /\ ret = NoRet
    /\ IF Len(v) # hnsw.dimensions_
       THEN /\ ret' = Outcome("add", v, 0, TRUE, <<>>)
            /\ UNCHANGED <<hnsw, mt>>
       ELSE /\ hnsw.rng_ < MaxDraws
            /\ mt' \in Streams(hnsw, 1)
            /\ hnsw' = hnsw_add(hnsw, v, mt')
            /\ ret' = Outcome("add", v, 0, FALSE, <<>>)
    /\ UNCHANGED <<kind, bf, cleared>>

\* HNSWIndex::add_batch
HAddBatch(vs) ==
    /\ kind = "hnsw" /\ ret = NoRet
    /\ LET need == AcceptedPrefix(vs, hnsw.dimensions_, 1)
       IN /\ hnsw.rng_ + need <= MaxDraws
          /\ mt' \in Streams(hnsw, need)
          /\ LET r == hnsw_add_batch(hnsw, vs, 1, mt')
             IN /\ hnsw' = r.h
                /\ ret' = Outcome("add_batch", vs, 0, r.err, <<>>)
    /\ UNCHANGED <<kind, bf, cleared>>

\* HNSWIndex::search
HSearch(q, k) ==
    /\ kind = "hnsw" /\ ret = NoRet
    /\ IF Len(q) # hnsw.dimensions_
       THEN ret' = Outcome("search", q, k, TRUE, <<>>)
       ELSE ret' = Outcome("search", q, k, FALSE, hnsw_search(hnsw, q, k))
    /\ UNCHANGED <<kind, bf, hnsw, mt, cleared>>

\* HNSWIndex::set_ef
HSetEf(ef) ==
    /\ kind = "hnsw" /\ ret = NoRet
    /\ hnsw' = hnsw_set_ef(hnsw, ef)
    /\ ret' = Outcome("set_ef", ef, 0, FALSE, <<>>)
    /\ UNCHANGED <<kind, bf, mt, cleared>>

\* HNSWIndex::clear
HClear ==
    /\ kind = "hnsw" /\ ret = NoRet
    /\ hnsw' = hnsw_clear(hnsw)
    /\ cleared' = (cleared \/ hnsw.num_vectors_ > 0)
    /\ ret' = Outcome("clear", <<>>, 0, FALSE, <<>>)
    /\ UNCHANGED <<kind, bf, mt>>

\* the call returns: the caller takes the outcome
Return ==
    /\ ret # NoRet
    /\ ret' = NoRet
    /\ UNCHANGED <<kind, bf, hnsw, mt, cleared>>

Next ==
    \/ \E v \in AnyVecs : BFAdd(v)
    \/ \E vs \in Batches : BFAddBatch(vs)
    \/ \E q \in AnyVecs, k \in Ks : BFSearch(q, k)
    \/ BFClear
    \/ \E v \in AnyVecs : HAdd(v)
    \/ \E vs \in Batches : HAddBatch(vs)
    \/ \E q \in AnyVecs, k \in Ks : HSearch(q, k)
    \/ \E ef \in 0..MaxEf : HSetEf(ef)
    \/ HClear
    \/ Return

Spec == Init /\ [][Next]_vars

\* --------------------------------------------------------------- claims
Rows(data, dims) == [i \in 1..(Len(data) \div dims) |-> Row(data, dims, i - 1)]

Layer(h, u, L) == At(At(h.nodes_, u).neighbors, L)

IsCall(op) == ret = NoRet /\ ret'.op = op

\* C1: an HNSW add_batch call that reports a dimension mismatch leaves the
\* whole index (len, arena, adjacency, entry point, max_layer, RNG state) as
\* it was before the call.
C1_HnswBatchAtomic ==
    [][(kind = "hnsw" /\ IsCall("add_batch") /\ ret'.err) => hnsw' = hnsw]_vars

\* C2: a brute-force add_batch with a wrong-length vector anywhere in the
\* batch reports the error and leaves len() and the arena unchanged; an
\* all-valid batch is appended in batch order and len() grows by |vecs|.
C2_BfBatchAtomic ==
    [][(kind = "bf" /\ IsCall("add_batch")) =>
        LET vs == ret'.arg
            n == bf.num_vectors_
            d == bf.dimensions_
        IN IF \E i \in 1..Len(vs) : Len(vs[i]) # d
           THEN ret'.err /\ bf' = bf
           ELSE /\ ~ret'.err
                /\ bf'.num_vectors_ = n + Len(vs)
                /\ Len(bf'.data_) = (n + Len(vs)) * d
                /\ \A j \in 0..(n - 1) : Row(bf'.data_, d, j) = Row(bf.data_, d, j)
                /\ \A i \in 1..Len(vs) : Row(bf'.data_, d, n + i - 1) = vs[i]]_vars

C2_Witness ==
    /\ kind = "bf" /\ ret.op = "add_batch" /\ ret.err
    /\ bf.num_vectors_ > 0
    /\ Len(ret.arg) = 2
    /\ Len(ret.arg[1]) = bf.dimensions_
    /\ Len(ret.arg[2]) # bf.dimensions_

\* the index a freshly constructed HNSWIndex reaches on the inserts vs
RECURSIVE Replay(_, _, _, _)
Replay(h, vs, i, levels) ==
    IF i > Len(vs) THEN h
    ELSE Replay(hnsw_add(h, vs[i], levels), vs, i + 1, levels)

\* the levels sampled for the nodes the index holds
SampledLevels(h, levels) == SubSeq(levels, h.rng_ - h.num_vectors_ + 1, h.rng_)

\* C3: after clear() on an index that has had an insertion, the inserts S
\* made since produce the sampled levels, neighbour lists, entry point and
\* max_layer that S produces on a freshly constructed index of the same
\* configuration.
C3_ClearRebuild ==
    (kind = "hnsw" /\ cleared) =>
        LET fresh == Replay(HNSWIndex(hnsw.dimensions_, hnsw.M_, hnsw.ef_construction_),
                            Rows(hnsw.data_, hnsw.dimensions_), 1, mt)
        IN /\ SampledLevels(hnsw, mt) = SampledLevels(fresh, mt)
           /\ hnsw.nodes_ = fresh.nodes_
           /\ hnsw.entry_point_ = fresh.entry_point_
           /\ hnsw.max_layer_ = fresh.max_layer_

HSearchReturned == kind = "hnsw" /\ ret.op = "search" /\ ~ret.err

\* C4 (as stated): an HNSW search with a query of the right dimension
\* returns exactly min(k, len()) pairs.
C4_SearchLength ==
    HSearchReturned => Len(ret.out) = Min(ret.k, hnsw.num_vectors_)

\* nodes reachable from the set S along layer-0 neighbour lists
RECURSIVE Reach0(_, _)
Reach0(h, S) ==
    LET T == S \cup UNION {{Layer(h, u, 0)[i] : i \in 1..Len(Layer(h, u, 0))} : u \in S}
    IN IF T = S THEN S ELSE Reach0(h, T)

\* C4 (amended): an HNSW search returns exactly min(k, r) pairs, r being the
\* number of nodes reachable along layer-0 neighbour lists from the node at
\* which the layer-0 search starts; that is at most min(k, len()).
C4_SearchLengthReachable ==
    HSearchReturned =>
        IF hnsw.num_vectors_ = 0 THEN ret.out = <<>>
        ELSE LET start == search_descend(hnsw, ret.arg, hnsw.entry_point_, hnsw.max_layer_)
                 r == Cardinality(Reach0(hnsw, {start}))
             IN /\ Len(ret.out) = Min(ret.k, r)
                /\ Len(ret.out) <= Min(ret.k, hnsw.num_vectors_)

C4_Witness ==
    /\ HSearchReturned
    /\ Len(ret.out) >= 1
    /\ Len(ret.out) < Min(ret.k, hnsw.num_vectors_)

BfSearchReturned == kind = "bf" /\ ret.op = "search" /\ ~ret.err

BfDist(id) == l2_distance_simd(ret.arg, Row(bf.data_, bf.dimensions_, id))

OutIds(out) == {out[i].id : i \in 1..Len(out)}

\* C5: a brute-force search returns min(k, len()) pairs (id, d) with
\* d = l2_sq(query, row(id)), distinct ids, nondecreasing distances, and no
\* stored row left out is closer than a returned one.
C5_BfCorrect ==
    BfSearchReturned =>
        LET out == ret.out
            n == bf.num_vectors_
        IN /\ Len(out) = Min(ret.k, n)
           /\ \A i \in 1..Len(out) :
                 /\ out[i].id \in 0..(n - 1)
                 /\ out[i].distance = BfDist(out[i].id)
           /\ \A i, j \in 1..Len(out) : i # j => out[i].id # out[j].id
           /\ \A i \in 1..(Len(out) - 1) : out[i].distance <= out[i + 1].distance
           /\ \A id \in (0..(n - 1)) \ OutIds(out) :
                 \A i \in 1..Len(out) : out[i].distance <= BfDist(id)

\* a top-2 of three rows in which the nearest row was stored last
C5_Witness ==
    /\ BfSearchReturned
    /\ Len(ret.out) = 2
    /\ ret.k < bf.num_vectors_
    /\ ret.out[1].distance < ret.out[2].distance
    /\ ret.out[1].id > ret.out[2].id

\* C6: among stored vectors at equal distance from the query a brute-force
\* search prefers the smaller ID, both in which tied IDs make the top-k and
\* in the order the tied IDs are returned.
C6_BfTieAscendingId ==
    BfSearchReturned =>
        LET out == ret.out
        IN /\ \A i, j \in 1..Len(out) :
                 (i < j /\ out[i].distance = out[j].distance) => out[i].id < out[j].id
           /\ \A id \in (0..(bf.num_vectors_ - 1)) \ OutIds(out) :
                 \A i \in 1..Len(out) :
                    out[i].distance = BfDist(id) => out[i].id < id

\* C7: set_ef(ef) with ef < 1 reports an error and keeps ef_search.
C7_SetEfRejectsZero ==
    [][(kind = "hnsw" /\ IsCall("set_ef") /\ ret'.arg < 1) =>
          (ret'.err /\ hnsw'.ef_search_ = hnsw.ef_search_)]_vars

\* C9: after an add or add_batch has completed, every node has at most
\* M_max_ (= 2 M) neighbours at layer 0 and at most M_ at each layer above.
C9_DegreeBound ==
    kind = "hnsw" =>
        \A u \in 0..(Len(hnsw.nodes_) - 1) :
            \A L \in 0..(Len(At(hnsw.nodes_, u).neighbors) - 1) :
                Len(Layer(hnsw, u, L)) <= (IF L = 0 THEN hnsw.M_max_ ELSE hnsw.M_)

InList(x, list) == \E i \in 1..Len(list) : list[i] = x

\* an insert has just pruned: a node with a full layer-0 list is listed by a
\* node it does not list itself
C9_Witness ==
    /\ kind = "hnsw" /\ ret.op \in {"add", "add_batch"} /\ ~ret.err
    /\ \E u, v \in 0..(Len(hnsw.nodes_) - 1) :
          /\ InList(v, Layer(hnsw, u, 0))
          /\ ~InList(u, Layer(hnsw, v, 0))
          /\ Len(Layer(hnsw, v, 0)) = hnsw.M_max_

\* C10: on both indexes add(v) with |v| # dim and search(q, k) with
\* |q| # dim report the error at that call (and only then) and change
\* nothing: not the index, not the RNG state, not the engine's output.
C10_DimensionMismatch ==
    [][(IsCall("add") \/ IsCall("search")) =>
          LET d == IF kind = "bf" THEN bf.dimensions_ ELSE hnsw.dimensions_
          IN /\ ret'.err <=> Len(ret'.arg) # d
             /\ ret'.err => (bf' = bf /\ hnsw' = hnsw /\ mt' = mt /\ ret'.out = <<>>)]_vars

\* a rejected add on an HNSW index that has drawn levels and is not full
C10_Witness ==
    /\ kind = "hnsw" /\ ret.op = "add" /\ ret.err
    /\ hnsw.rng_ > 0 /\ hnsw.rng_ < MaxDraws
    /\ hnsw.num_vectors_ > 0

\* C11: after every public operation on either index the flat buffer holds
\* exactly size() * dim floats, and the HNSW node vector exactly size() nodes.
C11_ArenaLength ==
    /\ Len(bf.data_) = bf.num_vectors_ * bf.dimensions_
    /\ Len(hnsw.data_) = hnsw.num_vectors_ * hnsw.dimensions_
    /\ Len(hnsw.nodes_) = hnsw.num_vectors_

\* an add_batch that threw after inserting, on an index cleared before
C11_Witness ==
    /\ kind = "hnsw" /\ ret.op = "add_batch" /\ ret.err
    /\ cleared /\ hnsw.num_vectors_ > 1

\* C12: the j-th successful insert since construction or the last clear
\* gets ID j: an insert appends its vector(s) as the next rows and leaves
\* every earlier row as it was, node j carries id j, and the ids a search
\* returns are distinct members of [0, len()).
C12_IdContiguity ==
    [][LET d == IF kind = "bf" THEN bf.dimensions_ ELSE hnsw.dimensions_
           n == IF kind = "bf" THEN bf.num_vectors_ ELSE hnsw.num_vectors_
           n2 == IF kind = "bf" THEN bf'.num_vectors_ ELSE hnsw'.num_vectors_
           data2 == IF kind = "bf" THEN bf'.data_ ELSE hnsw'.data_
           data1 == IF kind = "bf" THEN bf.data_ ELSE hnsw.data_
       IN /\ (IsCall("add") \/ IsCall("add_batch")) =>
                /\ n2 >= n
                /\ \A j \in 0..(n - 1) : Row(data2, d, j) = Row(data1, d, j)
                /\ \A j \in 0..(Len(hnsw'.nodes_) - 1) : At(hnsw'.nodes_, j).id = j
          /\ (IsCall("add") /\ ~ret'.err) =>
                (n2 = n + 1 /\ Row(data2, d, n) = ret'.arg)
          /\ IsCall("add_batch") =>
                /\ ~ret'.err => n2 = n + Len(ret'.arg)
                /\ \A i \in 1..(n2 - n) : Row(data2, d, n + i - 1) = ret'.arg[i]
          /\ (IsCall("search") /\ ~ret'.err) =>
                /\ \A i \in 1..Len(ret'.out) : ret'.out[i].id \in 0..(n - 1)
                /\ \A i, j \in 1..Len(ret'.out) :
                      i # j => ret'.out[i].id # ret'.out[j].id]_vars

\* a two-vector batch accepted by an HNSW index that was cleared before
C12_Witness ==
    /\ kind = "hnsw" /\ ret.op = "add_batch" /\ ~ret.err
    /\ Len(ret.arg) = 2 /\ cleared /\ hnsw.num_vectors_ >= 3

\* C13: on both indexes the distances in the list a search returns are
\* nondecreasing from first to last.
C13_MonotoneOrdering ==
    (ret.op = "search" /\ ~ret.err) =>
        \A i \in 1..(Len(ret.out) - 1) : ret.out[i].distance <= ret.out[i + 1].distance

\* an HNSW search that returned three pairs at more than one distance
C13_Witness ==
    /\ HSearchReturned
    /\ Len(ret.out) >= 3
    /\ ret.out[1].distance < ret.out[Len(ret.out)].distance

\* the largest level in a non-empty sequence of levels
RECURSIVE MaxLevel(_)
MaxLevel(lv) ==
    IF Len(lv) = 1 THEN lv[1] ELSE Max(lv[1], MaxLevel(Tail(lv)))

\* max_layer_ is the largest sampled level of the nodes held, entry_point_
\* the lowest id that has it
EntryIsFirstHighest(h, levels) ==
    h.num_vectors_ > 0 =>
        LET lv == SampledLevels(h, levels)
        IN /\ h.max_layer_ = MaxLevel(lv)
           /\ lv[h.entry_point_ + 1] = h.max_layer_
           /\ \A j \in 1..h.entry_point_ : lv[j] < h.max_layer_

\* C14: after every successful add, max_layer is the maximum sampled level
\* of the inserted nodes and never decreases between clears, entry_point is
\* the lowest-ID node at that level, and an add changes entry_point only
\* when the new node's level strictly exceeds the previous max_layer.
C14_EntryPoint ==
    [][(kind = "hnsw" /\ (IsCall("add") \/ IsCall("add_batch"))) =>
          /\ EntryIsFirstHighest(hnsw', mt')
          /\ hnsw'.max_layer_ >= hnsw.max_layer_
          /\ (hnsw'.entry_point_ # hnsw.entry_point_) =>
                 /\ hnsw'.max_layer_ > hnsw.max_layer_
                 /\ mt'[hnsw'.rng_ - hnsw'.num_vectors_ + hnsw'.entry_point_ + 1]
                       = hnsw'.max_layer_]_vars

\* the entry point is not node 0 and a later node has the same level
C14_Witness ==
    /\ kind = "hnsw" /\ ret.op = "add" /\ ~ret.err
    /\ hnsw.entry_point_ > 0
    /\ \E j \in (hnsw.entry_point_ + 2)..hnsw.num_vectors_ :
          SampledLevels(hnsw, mt)[j] = hnsw.max_layer_

\* C15: no node lists itself as a neighbour at any of its layers (so the
\* node being inserted was never among the candidates it was linked to).
C15_NoSelfLoops ==
    kind = "hnsw" =>
        \A u \in 0..(Len(hnsw.nodes_) - 1) :
            \A L \in 0..(Len(At(hnsw.nodes_, u).neighbors) - 1) :
                ~InList(u, Layer(hnsw, u, L))

\* an insert has linked its node at a layer above 0
C15_Witness ==
    /\ kind = "hnsw" /\ ret.op = "add" /\ ~ret.err
    /\ hnsw.num_vectors_ >= 2
    /\ Len(At(hnsw.nodes_, hnsw.num_vectors_ - 1).neighbors) >= 2
    /\ Layer(hnsw, hnsw.num_vectors_ - 1, 1) # <<>>
    /\ Layer(hnsw, hnsw.num_vectors_ - 1, 0) # <<>>

\* C16: on both indexes a search with a query of the right dimension returns
\* an empty list and no error when the index is empty or k is 0.
C16_EmptyResults ==
    LET d == IF kind = "bf" THEN bf.dimensions_ ELSE hnsw.dimensions_
        n == IF kind = "bf" THEN bf.num_vectors_ ELSE hnsw.num_vectors_
    IN (ret.op = "search" /\ Len(ret.arg) = d /\ (n = 0 \/ ret.k = 0)) =>
           (~ret.err /\ ret.out = <<>>)

\* k = 0 on a non-empty HNSW index whose ef_search is 0
C16_Witness ==
    /\ HSearchReturned
    /\ ret.k = 0 /\ hnsw.num_vectors_ >= 2 /\ hnsw.ef_search_ = 0

\* C17: clear() leaves an empty index (len 0, empty arena and node vector,
\* entry point 0, max_layer 0) with dim, M, M_max0, ef_construction and the
\* current ef_search unchanged, and the add that follows is a first
\* insertion: its node gets ID 0 and becomes the entry point.
C17_ClearResets ==
    [][/\ IsCall("clear") =>
            /\ bf' = [bf EXCEPT !.data_ = <<>>, !.num_vectors_ = 0]
            /\ hnsw'.num_vectors_ = 0 /\ hnsw'.data_ = <<>> /\ hnsw'.nodes_ = <<>>
            /\ hnsw'.entry_point_ = 0 /\ hnsw'.max_layer_ = 0
            /\ hnsw'.dimensions_ = hnsw.dimensions_
            /\ hnsw'.M_ = hnsw.M_ /\ hnsw'.M_max_ = hnsw.M_max_
            /\ hnsw'.ef_construction_ = hnsw.ef_construction_
            /\ hnsw'.ef_search_ = hnsw.ef_search_
       /\ (cleared /\ kind = "bf" /\ bf.num_vectors_ = 0
              /\ IsCall("add") /\ ~ret'.err) =>
            (bf'.num_vectors_ = 1 /\ bf'.data_ = ret'.arg)
       /\ (cleared /\ kind = "hnsw" /\ hnsw.num_vectors_ = 0
              /\ IsCall("add") /\ ~ret'.err) =>
            /\ hnsw'.num_vectors_ = 1 /\ hnsw'.data_ = ret'.arg
            /\ hnsw'.entry_point_ = 0
            /\ hnsw'.max_layer_ = mt'[hnsw'.rng_]
            /\ hnsw'.nodes_ = <<HNSWNode(0, hnsw'.max_layer_)>>]_vars

\* the first add after a clear, with an ef_search installed by set_ef
C17_Witness ==
    /\ kind = "hnsw" /\ ret.op = "add" /\ ~ret.err
    /\ cleared /\ hnsw.num_vectors_ = 1 /\ hnsw.ef_search_ = 1
    /\ hnsw.rng_ >= 2

\* C18: search changes no index state (arena, adjacency, entry point,
\* max_layer, ef_search, RNG state), set_ef changes ef_search only, and an
\* insert builds the graph it builds under the default ef_search, so the
\* graph does not depend on the search and set_ef calls made in between.
C18_SearchSetEfFrame ==
    [][/\ IsCall("search") => (bf' = bf /\ hnsw' = hnsw /\ mt' = mt)
       /\ IsCall("set_ef") =>
            (hnsw' = [hnsw EXCEPT !.ef_search_ = hnsw'.ef_search_] /\ mt' = mt)
       /\ (kind = "hnsw" /\ IsCall("add") /\ ~ret'.err
              /\ hnsw.ef_search_ # DefaultEfSearch) =>
            hnsw' = [hnsw_add([hnsw EXCEPT !.ef_search_ = DefaultEfSearch],
                              ret'.arg, mt')
                        EXCEPT !.ef_search_ = hnsw.ef_search_]]_vars

\* a graph of three nodes with links, built with an ef_search of 0 installed
C18_Witness ==
    /\ kind = "hnsw" /\ ret.op = "add" /\ ~ret.err
    /\ hnsw.num_vectors_ >= 3 /\ hnsw.ef_search_ = 0
    /\ Layer(hnsw, 0, 0) # <<>>

\* a successful add has just returned on an index never cleared and with
\* the default ef_search: every graph the index can hold is held in such a
\* state (set_ef and search do not touch the graph, and the levels drawn
\* after a clear can equally be drawn without one)
AfterAdd ==
    /\ kind = "hnsw" /\ ret.op = "add" /\ ~ret.err
    /\ ~cleared /\ hnsw.ef_search_ = DefaultEfSearch

\* the nodes that have a neighbour list at layer L
NodesAt(h, L) == {u \in 0..(Len(h.nodes_) - 1) : Len(At(h.nodes_, u).neighbors) > L}

\* the layers of the graph
LayersOf(h) == 0..h.max_layer_

\* C19: for ef >= 1, search_layer(query, entry, ef, layer) returns between 1
\* and ef candidates with distinct ids in nondecreasing distance order, and
\* their distances are the min(ef, |visited|) smallest among the nodes the
\* call visited.
C19_SearchLayerKeepsBest ==
    AfterAdd =>
        \A q \in Vecs : \A L \in LayersOf(hnsw) : \A e \in NodesAt(hnsw, L) :
            \A ef \in 1..(MaxEf + 1) :
                LET visited == sl_run(hnsw, q, e, ef, L).visited
                    out == search_layer(hnsw, q, e, ef, L)
                IN /\ Len(out) >= 1 /\ Len(out) <= ef
                   /\ Len(out) = Min(ef, Cardinality(visited))
                   /\ \A i \in 1..Len(out) :
                         /\ out[i].id \in visited
                         /\ out[i].distance = distance_to_query(hnsw, q, out[i].id)
                   /\ \A i, j \in 1..Len(out) : i # j => out[i].id # out[j].id
                   /\ \A i \in 1..(Len(out) - 1) :
                         out[i].distance <= out[i + 1].distance
                   /\ \A v \in visited \ OutIds(out) :
                         \A i \in 1..Len(out) :
                            out[i].distance <= distance_to_query(hnsw, q, v)

\* a call with ef = 2 that visited more than two nodes and left out one
\* that is strictly farther than both it returned
C19_Witness ==
    /\ AfterAdd
    /\ \E q \in Vecs : \E e \in NodesAt(hnsw, 0) :
          LET visited == sl_run(hnsw, q, e, 2, 0).visited
              out == search_layer(hnsw, q, e, 2, 0)
          IN /\ Cardinality(visited) > 2 /\ Len(out) = 2
             /\ \E v \in visited \ OutIds(out) :
                   out[2].distance < distance_to_query(hnsw, q, v)

\* the ids in the sequence s are pairwise different
Distinct(s) == \A i, j \in 1..Len(s) : i # j => s[i] # s[j]

\* the ids of a sequence of candidates
RECURSIVE IdsOf(_)
IdsOf(s) == IF s = <<>> THEN <<>> ELSE <<Head(s).id>> \o IdsOf(Tail(s))

\* C20: a search_layer call ends after at most one loop iteration per node
\* of the layer: the candidates popped, together with those left on the
\* frontier, are all different nodes of the layer, each of them visited.
C20_SearchLayerBounded ==
    AfterAdd =>
        \A q \in Vecs : \A L \in LayersOf(hnsw) : \A e \in NodesAt(hnsw, L) :
            \A ef \in 0..(MaxEf + 1) :
                LET st0 == sl_init(hnsw, q, e)
                    popped == sl_popped(hnsw, q, ef, L, st0)
                    final == sl_loop(hnsw, q, ef, L, st0)
                    pushed == popped \o IdsOf(final.C)
                IN /\ Distinct(pushed)
                   /\ Len(popped) <= Cardinality(NodesAt(hnsw, L))
                   /\ \A i \in 1..Len(pushed) : pushed[i] \in final.visited
                   /\ final.visited \subseteq NodesAt(hnsw, L)

\* a call on a cyclic layer that popped three nodes
C20_Witness ==
    /\ AfterAdd
    /\ \E q \in Vecs : \E e \in NodesAt(hnsw, 0) :
          /\ Len(sl_popped(hnsw, q, 2, 0, sl_init(hnsw, q, e))) >= 3
          /\ \E u \in NodesAt(hnsw, 0) :
                u # e /\ InList(u, Layer(hnsw, e, 0)) /\ InList(e, Layer(hnsw, u, 0))

\* every pair (node, layer) of acc names an existing neighbour list of h
InBounds(h, acc) ==
    \A p \in acc :
        /\ p[1] \in 0..(Len(h.nodes_) - 1)
        /\ p[2] >= 0 /\ p[2] < Len(At(h.nodes_, p[1]).neighbors)

\* every node has a layer-0 list, every id stored in a list of layer L is a
\* node with a list at layer L, and the entry point has a list at max_layer_
ListsInBounds(h) ==
    /\ \A u \in 0..(Len(h.nodes_) - 1) :
          /\ Len(At(h.nodes_, u).neighbors) >= 1
          /\ \A L \in 0..(Len(At(h.nodes_, u).neighbors) - 1) :
                \A i \in 1..Len(Layer(h, u, L)) : Layer(h, u, L)[i] \in NodesAt(h, L)
    /\ h.num_vectors_ > 0 => h.entry_point_ \in NodesAt(h, h.max_layer_)

\* C21: neighbour-list accesses stay in bounds whatever levels are drawn:
\* every list an add enters search_layer at or writes a link end to exists
\* in the node it indexes, every id stored in a list of layer L is a node
\* that has a list at layer L (so every read search_layer makes from there
\* exists too), and the same holds of the lists a search descends through.
C21_AccessesInBounds ==
    [][(kind = "hnsw" /\ IsCall("add") /\ ~ret'.err) =>
          LET new_level == get_random_level(hnsw, mt')
              h1 == add_alloc(hnsw, ret'.arg, mt')
          IN /\ ListsInBounds(hnsw) /\ ListsInBounds(hnsw')
             /\ hnsw.num_vectors_ > 0 =>
                   /\ InBounds(h1, descend_accesses(h1, ret'.arg, h1.entry_point_,
                                                    h1.max_layer_, new_level))
                   /\ InBounds(h1, add_accesses(h1, ret'.arg, hnsw.num_vectors_,
                                   add_descend(h1, ret'.arg, h1.entry_point_,
                                               h1.max_layer_, new_level),
                                   Min(new_level, h1.max_layer_)))
             /\ \A q \in Vecs :
                   InBounds(hnsw',
                       descend_accesses(hnsw', q, hnsw'.entry_point_, hnsw'.max_layer_, 0)
                       \cup {<<search_descend(hnsw', q, hnsw'.entry_point_,
                                              hnsw'.max_layer_), 0>>})]_vars

\* an add has linked at layer 1 a node that was created while max_layer_
\* was 0, and the node it added has more lists than its own level needs
C21_Witness ==
    /\ kind = "hnsw" /\ ret.op = "add" /\ ~ret.err
    /\ hnsw.num_vectors_ >= 3 /\ hnsw.max_layer_ = 1
    /\ SampledLevels(hnsw, mt)[1] = 0
    /\ SampledLevels(hnsw, mt)[hnsw.num_vectors_] = 0
    /\ Len(At(hnsw.nodes_, 0).neighbors) = 1
    /\ Len(At(hnsw.nodes_, hnsw.num_vectors_ - 1).neighbors) = 2
    /\ \E u \in NodesAt(hnsw, 1) : Layer(hnsw, u, 1) # <<>>

\* C22: a node has a non-empty neighbour list at layer L, or is listed by
\* another node at layer L, only if L is at most its sampled level (the
\* lists a node owes to max_layer_ alone stay empty), and no neighbour list
\* holds an id twice.  Stated of the index between calls: every state the
\* index reaches is held then.
C22_LayerMembership ==
    (kind = "hnsw" /\ ret = NoRet) =>
        LET lv == SampledLevels(hnsw, mt)
        IN \A u \in 0..(Len(hnsw.nodes_) - 1) :
              \A L \in 0..(Len(At(hnsw.nodes_, u).neighbors) - 1) :
                 /\ Layer(hnsw, u, L) # <<>> => L <= lv[u + 1]
                 /\ \A i \in 1..Len(Layer(hnsw, u, L)) : L <= lv[Layer(hnsw, u, L)[i] + 1]
                 /\ Distinct(Layer(hnsw, u, L))

\* a node of level 0 created under max_layer_ 1 sits next to two nodes
\* linked at layer 1: its layer-1 list exists and is empty
C22_Witness ==
    /\ kind = "hnsw" /\ ret = NoRet
    /\ hnsw.num_vectors_ >= 3
    /\ \E u \in NodesAt(hnsw, 1) :
          /\ SampledLevels(hnsw, mt)[u + 1] = 0
          /\ Layer(hnsw, u, 1) = <<>> /\ Layer(hnsw, u, 0) # <<>>
    /\ \E v \in NodesAt(hnsw, 1) : Layer(hnsw, v, 1) # <<>>

\* the distances of a sequence of candidates
RECURSIVE DistancesOf(_)
DistancesOf(s) ==
    IF s = <<>> THEN <<>> ELSE <<Head(s).distance>> \o DistancesOf(Tail(s))

\* the index holds no more than min(M_max_, ef_construction_) + 1 vectors
SmallIndex(h) == h.num_vectors_ <= Min(h.M_max_, h.ef_construction_) + 1

\* the brute-force index that holds the vectors of h
BruteForceOf(h) ==
    [dimensions_ |-> h.dimensions_, num_vectors_ |-> h.num_vectors_, data_ |-> h.data_]

\* C23: while len() <= min(M_max0, ef_construction) + 1 every node lists
\* every other node at layer 0, and an HNSW search returns the list of
\* distances that a brute-force search over the same vectors returns, for
\* every query, every k and whatever levels were drawn.
C23_SmallIndexExact ==
    (kind = "hnsw" /\ SmallIndex(hnsw)) =>
        /\ ret = NoRet =>
              \A u, v \in 0..(hnsw.num_vectors_ - 1) :
                 u # v => InList(v, Layer(hnsw, u, 0))
        /\ HSearchReturned =>
              DistancesOf(ret.out)
                 = DistancesOf(bf_search(BruteForceOf(hnsw), ret.arg, ret.k))

\* three vectors at the limit min(M_max_, ef_construction_) + 1 = 3, two
\* layers, ef_search below k, and a result with two different distances
C23_Witness ==
    /\ HSearchReturned
    /\ hnsw.num_vectors_ = 3 /\ hnsw.ef_construction_ = 2 /\ hnsw.M_ = 1
    /\ hnsw.max_layer_ = 1 /\ hnsw.ef_search_ = 1
    /\ ret.k = 2 /\ Len(ret.out) = 2
    /\ ret.out[1].distance < ret.out[2].distance

\* C24: every pair (id, d) an HNSW search returns has id < len() and
\* d = l2_sq(query, row(id)), no id is returned twice, and the result has
\* at most k entries.
C24_ResultSound ==
    HSearchReturned =>
        /\ Len(ret.out) <= ret.k
        /\ \A i \in 1..Len(ret.out) :
              /\ ret.out[i].id \in 0..(hnsw.num_vectors_ - 1)
              /\ ret.out[i].distance
                    = l2_distance_simd(ret.arg,
                          Row(hnsw.data_, hnsw.dimensions_, ret.out[i].id))
        /\ Distinct(IdsOf(ret.out))

\* a search on a cleared and refilled index of two layers that returned
\* two pairs at different non-zero distances
C24_Witness ==
    /\ HSearchReturned /\ cleared
    /\ hnsw.max_layer_ = 1 /\ hnsw.num_vectors_ >= 2
    /\ Len(ret.out) = 2
    /\ ret.out[1].distance = 0 /\ ret.out[2].distance > 0
    /\ ret.out[1].id > ret.out[2].id

====
